---------------------------- MODULE Spec2Model ----------------------------
(***************************************************************************)
(* Model of the AFL ingestion core of footybets-ai: the season-page        *)
(* scrapers, the round normaliser, the dedup step and the writers that     *)
(* persist Team, Game, Player and PlayerGameStats rows.                    *)
(*                                                                         *)
(* Storage is modelled as the handlers use it: a filter on the round, the  *)
(* home team and the away team of a Game is a lookup on those fields of    *)
(* the stored rows, whatever the column is called in the handler, and a    *)
(* session is a working copy of the committed tables.  Every session of    *)
(* the repository is created with autoflush=False, so an object that was   *)
(* added and not yet flushed is invisible to the queries of its session.   *)
(* Team references are kept as team names (Team.name is unique).           *)
(***************************************************************************)
EXTENDS Integers, Sequences, FiniteSets, TLC

(***************************************************************************)
(* Bounds of the model.                                                    *)
(***************************************************************************)
NumSeasons == 2      \* seasons of one multi-season run
MaxRound == 1        \* raw rounds 0..MaxRound appear on a page
MaxGames == 1        \* provisional games on one season page (writer runs)
MaxPlayers == 1      \* player rows of one box-score table
MaxRuns == 2         \* handler invocations in one behaviour
MaxRawRound == 24    \* raw rounds 0..MaxRawRound given to the round adjustment
MaxTableRows == 2    \* row pairs of a page given to the duplicate removal
MaxCellLen == 2      \* characters of a stat cell of a box-score row
MaxBoxRows == 2      \* body rows of a box-score table given to the extraction
MaxRows == 5         \* rows of a table of a season page
MaxHeader == 2       \* the highest N of a "Round N" header row
MaxDated == 3        \* games of a season page given to the sort by date
MaxDay == 2          \* the latest date of a game, in days

(***************************************************************************)
(* Program constants.                                                      *)
(***************************************************************************)
EarliestSeason == 2020
FirstSeason == 2023
Round0First == 2024
Round0Last == 2025

Seasons == [i \in 1..NumSeasons |-> FirstSeason + i - 1]
SeasonSet == {Seasons[i] : i \in 1..NumSeasons}
Round0Seasons == {Round0First, Round0Last}
ScrapedSeasons == EarliestSeason..Round0Last

(***************************************************************************)
(* Optional values: Python's None and an int.                              *)
(***************************************************************************)
None == <<>>
Some(x) == <<x>>
Truthy(o) == o # None /\ o[1] # 0
Range(s) == {s[i] : i \in DOMAIN s}

SeqsUpTo(S, n) == UNION {[1..k -> S] : k \in 0..n}

TeamNames == {"Essendon", "Richmond"}
PlayerNames == {"J Smith"}
OtherTeam == "Bombers"


(***************************************************************************)
(* The record _parse_game_rows returns for a pair of rows.  The game_id is *)
(* the string the parser formats: it carries the round only when the round *)
(* is truthy.                                                              *)
(***************************************************************************)
GameId(season, round_num, home_team, away_team) ==
    IF Truthy(round_num)
    THEN <<season, "r", round_num[1], home_team, away_team>>
    ELSE <<season, home_team, away_team>>

ParsedGame(season, round_num, home_team, away_team, home_score, away_score, stats_link) ==
    [ home_team |-> home_team, away_team |-> away_team,
      home_score |-> home_score, away_score |-> away_score,
      season |-> season, round |-> round_num, stats_link |-> stats_link,
      game_id |-> GameId(season, round_num, home_team, away_team),
      parsed_round |-> round_num ]   \* the round as parsed, for the record of writes

(***************************************************************************)
(* parse_season_page, "Remove duplicates based on game_id": the first      *)
(* record of each game_id is kept, in page order.                          *)
(***************************************************************************)
RECURSIVE UniqueGames(_, _)
UniqueGames(games, acc) ==
    IF games = <<>> THEN acc
    ELSE LET game == Head(games)
         IN  UniqueGames(Tail(games),
                 IF \E i \in DOMAIN acc : acc[i].game_id = game.game_id
                 THEN acc ELSE Append(acc, game))

(***************************************************************************)
(* The Round-0 adjustment of scrape_afl_data_to_database.                  *)
(***************************************************************************)
NormalizeRound(season, original_round) ==
    IF season \in Round0Seasons /\ Truthy(original_round)
    THEN Some(original_round[1] - 1)
    ELSE original_round

AdjustGame(season, game) ==
    IF season \in Round0Seasons /\ Truthy(game.round)
    THEN [game EXCEPT !.round = NormalizeRound(season, game.round),
                      !.game_id = <<season, "r", game.round[1] - 1,
                                    game.home_team, game.away_team>>]
    ELSE game

RECURSIVE CompletedGames(_, _)
CompletedGames(season, games) ==
    IF games = <<>> THEN <<>>
    ELSE LET game == Head(games)
             rest == CompletedGames(season, Tail(games))
         IN  IF game.home_score > 0 \/ game.away_score > 0
             THEN <<AdjustGame(season, game)>> \o rest
             ELSE rest

(***************************************************************************)
(* Storage: the committed tables, and a session's working copy of them     *)
(* with the objects added and not yet flushed.                             *)
(***************************************************************************)
EmptyTables == [teams |-> <<>>, games |-> <<>>, players |-> <<>>, stats |-> <<>>]

OpenSession(tables) ==
    [ teams |-> tables.teams, games |-> tables.games, players |-> tables.players,
      stats |-> tables.stats, added |-> <<>>, pending |-> <<>> ]

NoSession == OpenSession(EmptyTables)

\* flush(): the added Game and PlayerGameStats objects reach the tables.
Flush(s) == [s EXCEPT !.games = s.games \o s.added, !.added = <<>>,
                      !.stats = s.stats \o s.pending, !.pending = <<>>]

Tables(s) == [teams |-> s.teams, games |-> s.games, players |-> s.players, stats |-> s.stats]

Commit(s) == Tables(Flush(s))

\* A rollback that keeps what the session had flushed.
RollbackKeepsFlushed(committed, s) == Tables(s)

Rollback(committed, s) == committed

FirstIndex(rows, P(_)) ==
    IF \E i \in DOMAIN rows : P(rows[i])
    THEN CHOOSE i \in DOMAIN rows : P(rows[i]) /\ \A j \in 1..(i - 1) : ~P(rows[j])
    ELSE 0

\* A lookup that only sees the games that are not finished.
FindUnfinishedGame(s, season, round_num, home_team, away_team) ==
    FirstIndex(s.games, LAMBDA g : /\ g.season = season
                                   /\ g.round = round_num
                                   /\ g.home = home_team
                                   /\ g.away = away_team
                                   /\ ~g.is_finished)

FindGame(s, season, round_num, home_team, away_team) ==
    FirstIndex(s.games, LAMBDA g : /\ g.season = season
                                   /\ g.round = round_num
                                   /\ g.home = home_team
                                   /\ g.away = away_team)

FindPlayer(s, name) == FirstIndex(s.players, LAMBDA p : p = name)

FindStats(s, game_id, player_id) ==
    FirstIndex(s.stats, LAMBDA r : r.game = game_id /\ r.player = player_id)


(***************************************************************************)
(* scrape_afl_data_to_database, the body of its game loop.                 *)
(***************************************************************************)
ResolveTeam(s, team_name) ==
    IF team_name \in Range(s.teams) THEN s
    ELSE Flush([s EXCEPT !.teams = Append(@, team_name)])

RECURSIVE ResolveTeams(_, _)
ResolveTeams(s, games) ==
    IF games = <<>> THEN s
    ELSE ResolveTeams(ResolveTeam(ResolveTeam(s, Head(games).home_team),
                                  Head(games).away_team),
                      Tail(games))

TeamsCache(games) ==
    {games[i].home_team : i \in DOMAIN games} \cup {games[i].away_team : i \in DOMAIN games}

GameRow(season, round_num, home_team, away_team, home_score, away_score, is_finished) ==
    [ season |-> season, round |-> round_num, home |-> home_team, away |-> away_team,
      home_score |-> home_score, away_score |-> away_score, is_finished |-> is_finished ]

\* "Create or get game record": the session after it, and the game's id.
UpsertGameAfl(s, season, game_data) ==
    LET existing_game == FindGame(s, season, game_data.round,
                                  game_data.home_team, game_data.away_team)
    IN  IF existing_game # 0
        THEN [ s |-> [s EXCEPT !.games[existing_game].home_score = Some(game_data.home_score),
                               !.games[existing_game].away_score = Some(game_data.away_score),
                               !.games[existing_game].is_finished = TRUE],
               id |-> existing_game ]
        ELSE [ s |-> Flush([s EXCEPT !.games = Append(@,
                         GameRow(season, game_data.round, game_data.home_team,
                                 game_data.away_team, Some(game_data.home_score),
                                 Some(game_data.away_score), TRUE))]),
               id |-> Len(s.games) + 1 ]

\* The creation alone, without the query by name before it.
CreatePlayer(s, player_name) ==
    Flush([s EXCEPT !.players = Append(@, player_name)])

GetOrCreatePlayer(s, player_name) ==
    IF FindPlayer(s, player_name) # 0 THEN s
    ELSE Flush([s EXCEPT !.players = Append(@, player_name)])

StatsRow(game_id, player_id, team, player_data) ==
    [ game |-> game_id, player |-> player_id, team |-> team, kicks |-> player_data.kicks ]

\* One player of a box score: the row is added only when the query finds none.
SavePlayerAfl(s, game_id, team_name, player_data) ==
    LET s1 == GetOrCreatePlayer(s, player_data.name)
        player_id == FindPlayer(s1, player_data.name)
    IN  IF FindStats(s1, game_id, player_id) = 0
        THEN [s1 EXCEPT !.pending = Append(@, StatsRow(game_id, player_id, team_name, player_data))]
        ELSE s1

RECURSIVE SavePlayersAfl(_, _, _, _)
SavePlayersAfl(s, game_id, team_name, players) ==
    IF players = <<>> THEN s
    ELSE SavePlayersAfl(SavePlayerAfl(s, game_id, team_name, Head(players)),
                        game_id, team_name, Tail(players))

\* The loop over stats_result['player_stats']: teams_cache[team_name] raises
\* KeyError for a team that is no home or away team of the season's games.
RECURSIVE SaveTablesAfl(_, _, _, _)
SaveTablesAfl(s, game_id, tables, teams_cache) ==
    IF tables = <<>> THEN [s |-> s, ok |-> TRUE]
    ELSE IF Head(tables).team \notin teams_cache THEN [s |-> s, ok |-> FALSE]
    ELSE SaveTablesAfl(SavePlayersAfl(s, game_id, Head(tables).team, Head(tables).players),
                       game_id, Tail(tables), teams_cache)

(***************************************************************************)
(* AFLScraper._save_game_to_db and _save_player_stats_to_db.               *)
(***************************************************************************)
SaveGameToDb(s, game_data, year) ==
    LET existing_game == FindGame(s, year, game_data.round,
                                  game_data.home_team, game_data.away_team)
    IN  IF existing_game # 0
        THEN [ s |-> [s EXCEPT !.games[existing_game].home_score = Some(game_data.home_score),
                               !.games[existing_game].away_score = Some(game_data.away_score)],
               id |-> existing_game ]
        ELSE [ s |-> Flush([s EXCEPT !.games = Append(@,
                         GameRow(year, game_data.round, game_data.home_team,
                                 game_data.away_team, Some(game_data.home_score),
                                 Some(game_data.away_score), FALSE))]),
               id |-> Len(s.games) + 1 ]

SavePlayerStat(s, game_id, team_name, player_data) ==
    LET s1 == GetOrCreatePlayer(s, player_data.name)
        player_id == FindPlayer(s1, player_data.name)
    IN  [s1 EXCEPT !.pending = Append(@, StatsRow(game_id, player_id, team_name, player_data))]

RECURSIVE SavePlayerStats(_, _, _, _)
SavePlayerStats(s, game_id, team_name, players) ==
    IF players = <<>> THEN s
    ELSE SavePlayerStats(SavePlayerStat(s, game_id, team_name, Head(players)),
                         game_id, team_name, Tail(players))

RECURSIVE SavePlayerStatsToDb(_, _, _)
SavePlayerStatsToDb(s, tables, game_id) ==
    IF tables = <<>> THEN s
    ELSE SavePlayerStatsToDb(
             SavePlayerStats(s, game_id, Head(tables).team, Head(tables).players),
             Tail(tables), game_id)


(***************************************************************************)
(* A season page, as the parsers see it: the pairs of adjacent team rows,  *)
(* each with the round the parser resolves for it, the two score cells and *)
(* whether the away row carries a stats-detail link.  A score cell is      *)
(* empty or holds a bare integer.                                          *)
(***************************************************************************)
EmptyCell == [form |-> "empty", total |-> 0]
DashCell == [form |-> "dash", total |-> 0]
BareCell(n) == [form |-> "int", total |-> n]
GbtCell(goals, behinds, total) == [form |-> "gbt", total |-> total]

\* _parse_game_rows: int(text) if text.isdigit() else 0; "12.8.80" is not
\* all digits.
RowsScore(cell) == IF cell.form = "int" THEN cell.total ELSE 0

\* _extract_result_details: goals.behinds.total gives the total, a cell of at
\* most three digits gives its value, and with no such cell the score stays None
ResultScore(cell) == IF cell.form \in {"gbt", "int"} THEN Some(cell.total) ELSE None

RECURSIVE ParsePairs(_, _)
ParsePairs(pairs, season) ==
    IF pairs = <<>> THEN <<>>
    ELSE LET p == Head(pairs)
             rest == ParsePairs(Tail(pairs), season)
         IN  IF p.home = p.away THEN rest
             ELSE <<ParsedGame(season, p.round, p.home, p.away,
                               RowsScore(p.hcell), RowsScore(p.acell), p.stats_link)>> \o rest

\* parse_season_page on a page that was fetched
ParseSeasonPage(pairs, season) == UniqueGames(ParsePairs(pairs, season), <<>>)

(***************************************************************************)
(* AFLTablesResultsScraper / AFLTablesUpcomingScraper: the games of a      *)
(* page, _has_valid_scores, _deduplicate_games and the two save routines.  *)
(***************************************************************************)
HasValidScores(game_data) ==
    /\ game_data.home_score # None /\ game_data.away_score # None
    /\ game_data.home_score[1] >= 0 /\ game_data.away_score[1] >= 0

ResultGame(p, season) ==
    [ season |-> season, round |-> p.round, home_team |-> p.home, away_team |-> p.away,
      home_score |-> ResultScore(p.hcell), away_score |-> ResultScore(p.acell),
      is_finished |-> TRUE ]

FixtureGame(p, season) ==
    [ season |-> season, round |-> p.round, home_team |-> p.home, away_team |-> p.away,
      home_score |-> None, away_score |-> None, is_finished |-> FALSE ]

RECURSIVE ParseResultsTable(_, _)
ParseResultsTable(pairs, season) ==
    IF pairs = <<>> THEN <<>>
    ELSE LET game_data == ResultGame(Head(pairs), season)
             rest == ParseResultsTable(Tail(pairs), season)
         IN  IF HasValidScores(game_data) THEN <<game_data>> \o rest ELSE rest

ParseFixtureTable(pairs, season) == [i \in DOMAIN pairs |-> FixtureGame(pairs[i], season)]

DedupKey(game) == <<game.home_team, game.away_team, game.round, game.season>>

\* all(key): every component of the key is truthy
AllKey(game) ==
    /\ game.home_team # "" /\ game.away_team # ""
    /\ Truthy(game.round) /\ game.season # 0

RECURSIVE DeduplicateGames(_, _)
DeduplicateGames(games, unique_games) ==
    IF games = <<>> THEN unique_games
    ELSE LET game == Head(games)
             seen == {DedupKey(unique_games[i]) : i \in DOMAIN unique_games}
         IN  DeduplicateGames(Tail(games),
                 IF DedupKey(game) \notin seen /\ AllKey(game)
                 THEN Append(unique_games, game) ELSE unique_games)


(***************************************************************************)
(* The record of one Game write, kept for the last step only: the writer,  *)
(* the round as parsed and the round used in the key, the row before (None *)
(* for an insert) and after, and whether a score could not be parsed.      *)
(***************************************************************************)
WriteEvent(writer, season, parsed_round, key_round, was, now, missing) ==
    [ writer |-> writer, season |-> season, parsed_round |-> parsed_round,
      key_round |-> key_round, was |-> was, now |-> now, missing |-> missing ]

RowBefore(s, id) == IF id <= Len(s.games) THEN Some(s.games[id]) ELSE None

\* save_results_to_db, the body of its loop
SaveResult(s, game_data) ==
    LET existing_game == FindGame(s, game_data.season, game_data.round,
                                  game_data.home_team, game_data.away_team)
    IN  IF existing_game # 0
        THEN [s EXCEPT !.games[existing_game].home_score = game_data.home_score,
                       !.games[existing_game].away_score = game_data.away_score,
                       !.games[existing_game].is_finished = TRUE]
        ELSE [s EXCEPT !.added = Append(@,
                  GameRow(game_data.season, game_data.round, game_data.home_team,
                          game_data.away_team, game_data.home_score,
                          game_data.away_score, TRUE))]

\* save_upcoming_games_to_db, the body of its loop
SaveUpcoming(s, game_data) ==
    LET existing_game == FindGame(s, game_data.season, game_data.round,
                                  game_data.home_team, game_data.away_team)
    IN  IF existing_game # 0
        THEN [s EXCEPT !.games[existing_game].is_finished = FALSE]
        ELSE [s EXCEPT !.added = Append(@,
                  GameRow(game_data.season, game_data.round, game_data.home_team,
                          game_data.away_team, None, None, FALSE))]

\* The write a save routine made for game_data, from the session before and after.
BatchEvent(writer, s, s1, game_data) ==
    LET existing_game == FindGame(s, game_data.season, game_data.round,
                                  game_data.home_team, game_data.away_team)
    IN  WriteEvent(writer, game_data.season, game_data.round, game_data.round,
                   IF existing_game # 0 THEN Some(s.games[existing_game]) ELSE None,
                   IF existing_game # 0 THEN s1.games[existing_game]
                                        ELSE s1.added[Len(s1.added)],
                   game_data.home_score = None \/ game_data.away_score = None)

RECURSIVE SaveResultsToDb(_, _, _)
SaveResultsToDb(s, games, events) ==
    IF games = <<>> THEN [s |-> s, events |-> events]
    ELSE LET s1 == SaveResult(s, Head(games))
         IN  SaveResultsToDb(s1, Tail(games),
                 Append(events, BatchEvent("results", s, s1, Head(games))))

RECURSIVE SaveUpcomingGamesToDb(_, _, _)
SaveUpcomingGamesToDb(s, games, events) ==
    IF games = <<>> THEN [s |-> s, events |-> events]
    ELSE LET s1 == SaveUpcoming(s, Head(games))
         IN  SaveUpcomingGamesToDb(s1, Tail(games),
                 Append(events, BatchEvent("upcoming", s, s1, Head(games))))


(***************************************************************************)
(* The inputs of a run: what the site serves.                              *)
(***************************************************************************)
Fixtures == {<<"Essendon", "Richmond">>}
PageRounds == {None} \cup {Some(r) : r \in 0..MaxRound}
CellPairs == { <<BareCell(81), BareCell(81)>>, <<EmptyCell, BareCell(81)>>,
               <<EmptyCell, EmptyCell>> }

RowPairs ==
    { [ round |-> r, home |-> f[1], away |-> f[2],
        hcell |-> c[1], acell |-> c[2], stats_link |-> l ] :
      r \in PageRounds, f \in Fixtures, c \in CellPairs, l \in BOOLEAN }

Pages == SeqsUpTo(RowPairs, MaxGames)

PlayerData == [name : PlayerNames, kicks : {12}]

(***************************************************************************)
(* AFLScraper._parse_stat and the row loop of _extract_player_stats.  The  *)
(* text of a stat cell is a sequence of characters; a row is its number of *)
(* cells, whether its second cell holds a player link, the player's name   *)
(* and the text of the kicks cell.                                         *)
(***************************************************************************)
MinStatCells == 15      \* rows with fewer cells are skipped
LastStatCell == 15      \* the highest index that is read without a length test

Digits == {"1", "2"}
CellChars == Digits \cup {" ", "x"}
StatTexts == SeqsUpTo(CellChars, MaxCellLen)

DigitValue(c) == IF c = "1" THEN 1 ELSE 2

RECURSIVE DecimalValue(_)
DecimalValue(text) ==
    IF text = <<>> THEN 0
    ELSE 10 * DecimalValue(SubSeq(text, 1, Len(text) - 1)) + DigitValue(text[Len(text)])

\* str.strip()
RECURSIVE Strip(_)
Strip(text) ==
    IF text = <<>> THEN <<>>
    ELSE IF Head(text) = " " THEN Strip(Tail(text))
    ELSE IF text[Len(text)] = " " THEN Strip(SubSeq(text, 1, Len(text) - 1))
    ELSE text

\* int(text): the value, or None where int raises ValueError
IntOf(text) ==
    LET t == Strip(text)
    IN  IF t # <<>> /\ \A i \in DOMAIN t : t[i] \in Digits
        THEN Some(DecimalValue(t)) ELSE None

\* The value of the digits a text starts with, whatever follows them.
RECURSIVE DigitPrefix(_)
DigitPrefix(text) ==
    IF text = <<>> \/ Head(text) \notin Digits THEN <<>>
    ELSE <<Head(text)>> \o DigitPrefix(Tail(text))

ParseStatPrefix(cell) == DecimalValue(DigitPrefix(Strip(cell)))

ParseStat(cell) ==
    LET text == Strip(cell)
    IN  IF text # <<>>
        THEN IF IntOf(text) = None THEN 0      \* except (ValueError, AttributeError)
             ELSE IntOf(text)[1]
        ELSE 0

BoxRows == [ncells : (MinStatCells - 1)..(LastStatCell + 1), link : BOOLEAN,
            name : PlayerNames, kicks : StatTexts]

\* The loop over the body rows of one table.  A row of exactly fifteen
\* cells with a player link raises IndexError at cells[15]; the handler of
\* _extract_player_stats then returns the empty dictionary.
RECURSIVE ExtractPlayerStats(_, _)
ExtractPlayerStats(rows, players) ==
    IF rows = <<>> THEN [raised |-> FALSE, players |-> players]
    ELSE LET row == Head(rows)
         IN  IF row.ncells < MinStatCells THEN ExtractPlayerStats(Tail(rows), players)
             ELSE IF ~row.link THEN ExtractPlayerStats(Tail(rows), players)
             ELSE IF row.ncells <= LastStatCell THEN [raised |-> TRUE, players |-> <<>>]
             ELSE ExtractPlayerStats(Tail(rows),
                      Append(players, [name |-> row.name, kicks |-> ParseStat(row.kicks)]))

\* What parse_game_stats returns: failure, or the box-score tables by team.
StatsResults(team_names) ==
    {[success |-> FALSE, player_stats |-> <<>>]} \cup
    { [success |-> TRUE, player_stats |-> t] :
      t \in { <<[team |-> n, players |-> ps]>> :
              n \in team_names, ps \in SeqsUpTo(PlayerData, MaxPlayers) } }

(***************************************************************************)
(* State.                                                                  *)
(***************************************************************************)
VARIABLES
    db,     \* the committed tables
    sess,   \* the session of the run in progress
    run,    \* the run in progress: its kind, its place in the season list, its result
    runs,   \* handler invocations so far
    mark,   \* the committed tables when the current season's writes began
    log,    \* the Game writes of the last step
    fault,  \* whether the last step was a failure of the season's persistence
    site,   \* None while the pages may change between requests, else the fixed pages
    first,  \* over fixed pages: the committed tables at the end of the first run
    call,   \* the last direct call of a parsing function, its argument and result
    writers \* the concurrent executions of a save routine, each with its own session

vars == <<db, sess, run, runs, mark, log, fault, site, first, call, writers>>

NoFault == [kind |-> "none", season |-> 0, discarded |-> 0]

\* The rows of a session that its storage does not hold.
Uncommitted(committed, s) ==
    LET t == Tables(Flush(s))
    IN  (Len(t.teams) - Len(committed.teams)) + (Len(t.games) - Len(committed.games))
        + (Len(t.players) - Len(committed.players)) + (Len(t.stats) - Len(committed.stats))

Fault(kind, season, committed, s) ==
    [kind |-> kind, season |-> season, discarded |-> Uncommitted(committed, s)]

Quiet == log' = <<>> /\ fault' = NoFault

IdleRun ==
    [ kind |-> "idle", idx |-> 0, phase |-> "done", todo |-> <<>>, cache |-> {},
      attempted |-> {}, failed |-> {}, processed |-> 0, ret |-> "none",
      save_to_db |-> FALSE, games_found |-> 0, details |-> <<>>,
      start |-> 1, last |-> 0,
      stats_failed |-> {},      \* the seasons with a box-score page that failed
      pace |-> "delayed" ]      \* "fetched" after a page request, "delayed" after a
                                \* time.sleep, "rushed" once a request followed a
                                \* request with no sleep between them

\* session.get(url) and time.sleep(...) as they move the pace of a run.
Fetched(pace) == IF pace = "delayed" THEN "fetched" ELSE "rushed"

Slept(pace) == IF pace = "rushed" THEN "rushed" ELSE "delayed"

\* The scheduler's job thread and the thread of a caller of run_job_now.
Writers == {"job", "run_job_now"}

IdleWriter == [phase |-> "idle", todo |-> <<>>, added |-> <<>>, updated |-> {}, calls |-> 0]

NoCall == [fn |-> "none", arg |-> <<>>, result |-> <<>>, rows |-> <<>>]

Idle ==
    /\ db = EmptyTables
    /\ sess = NoSession
    /\ run = IdleRun
    /\ runs = 0
    /\ mark = EmptyTables
    /\ log = <<>>
    /\ fault = NoFault
    /\ first = None
    /\ call = NoCall
    /\ writers = [w \in Writers |-> IdleWriter]

Init == Idle /\ site = None

CanStart == run.phase = "done" /\ runs < MaxRuns

FetchResults ==
    {[success |-> FALSE, pairs |-> <<>>]} \cup {[success |-> TRUE, pairs |-> p] : p \in Pages}

\* The pages a run can be served: any, or those of the fixed site.
\* save_to_db is the flag each run is invoked with; scrape_afl_data_to_database
\* has no such flag and always saves.
FixedSites ==
    { fixed \in [ pipeline : {"afl_data", "multi"},
                  pages : [SeasonSet -> FetchResults],
                  stats : StatsResults({f[1] : f \in Fixtures} \cup {OtherTeam}),
                  save_to_db : [1..MaxRuns -> BOOLEAN] ] :
        fixed.pipeline = "afl_data" => \A k \in 1..MaxRuns : fixed.save_to_db[k] }

PageResults(season) == IF site = None THEN FetchResults ELSE {site[1].pages[season]}

StatsFor(team_names) == IF site = None THEN StatsResults(team_names) ELSE {site[1].stats}

\* start_year and end_year of scrape_multiple_seasons, as places in the season
\* list: all the seasons, or a range whose start is after its end.  Over the
\* fixed pages a run takes all the seasons.
YearRanges ==
    IF site = None THEN {<<1, NumSeasons>>, <<NumSeasons, 1>>} ELSE {<<1, NumSeasons>>}

\* save_to_db of scrape_multiple_seasons: either, or as fixed for the run.
SaveChoices == IF site = None THEN BOOLEAN ELSE {site[1].save_to_db[runs + 1]}

\* The end of a run: over fixed pages the outcome of the first run is kept.
RunEnds(tables) == first' = IF site # None /\ first = None THEN Some(tables) ELSE first

(***************************************************************************)
(* scrape_afl_data_to_database: one session for the whole run, a commit    *)
(* after each season, and one except clause around the whole loop.         *)
(***************************************************************************)
StartAflData ==
    /\ CanStart
    /\ run' = [IdleRun EXCEPT !.kind = "afl_data", !.idx = 1, !.phase = "fetch",
                              !.save_to_db = TRUE, !.last = NumSeasons]
    /\ sess' = OpenSession(db)
    /\ runs' = runs + 1
    /\ mark' = db
    /\ Quiet
    /\ UNCHANGED <<db, site, first, call, writers>>

\* parse_season_page, the filter to completed games and the teams of the season
AflFetch ==
    /\ run.kind = "afl_data" /\ run.phase = "fetch" /\ run.idx <= NumSeasons
    /\ \E result \in PageResults(Seasons[run.idx]) :
         LET season == Seasons[run.idx]
             completed_games == CompletedGames(season, ParseSeasonPage(result.pairs, season))
         IN  IF ~result.success
             THEN /\ run' = [run EXCEPT !.idx = @ + 1, !.attempted = @ \cup {season},
                                        !.pace = Fetched(@)]
                  /\ UNCHANGED sess
             ELSE /\ run' = [run EXCEPT !.phase = "games", !.todo = completed_games,
                                        !.cache = TeamsCache(completed_games),
                                        !.attempted = @ \cup {season},
                                        !.pace = Fetched(@)]
                  /\ sess' = ResolveTeams(sess, completed_games)
    /\ mark' = db
    /\ Quiet
    /\ UNCHANGED <<db, runs, site, first, call, writers>>

\* The except clause of the run: no commit, no rollback, the run returns False.
AflAbort ==
    /\ run' = [run EXCEPT !.phase = "done", !.todo = <<>>, !.cache = {}, !.ret = "false",
                          !.pace = IF run.todo # <<>> /\ Head(run.todo).stats_link
                                   THEN Fetched(@) ELSE @]
    /\ sess' = NoSession
    /\ fault' = Fault("aborted", Seasons[run.idx], db, sess)
    /\ RunEnds(db)
    /\ UNCHANGED <<db, runs, mark, site, call, writers>>

\* One game of the season: the Game upsert, then its box score.
AflGame ==
    /\ run.kind = "afl_data" /\ run.phase = "games" /\ run.todo # <<>>
    /\ LET season == Seasons[run.idx]
           game_data == Head(run.todo)
           u == UpsertGameAfl(sess, season, game_data)
           event == WriteEvent("afl_data", season, game_data.parsed_round, game_data.round,
                               RowBefore(sess, u.id), u.s.games[u.id],
                               game_data.home_score = 0 \/ game_data.away_score = 0)
       IN  /\ log' = <<event>>
           /\ IF ~game_data.stats_link
              THEN /\ sess' = u.s
                   /\ run' = [run EXCEPT !.todo = Tail(@), !.pace = Slept(@)]
                   /\ fault' = NoFault
                   /\ UNCHANGED <<db, runs, mark, site, first, call, writers>>
              ELSE \E stats_result \in StatsFor({game_data.home_team, OtherTeam}) :
                     LET saved == SaveTablesAfl(u.s, u.id, stats_result.player_stats, run.cache)
                     IN  IF saved.ok
                         THEN /\ sess' = saved.s
                              /\ run' = [run EXCEPT !.todo = Tail(@),
                                                    !.pace = Slept(Fetched(@))]
                              /\ fault' = NoFault
                              /\ UNCHANGED <<db, runs, mark, site, first, call, writers>>
                         ELSE AflAbort

\* A storage call of the game loop, or the season's commit, raises.
AflStorageError ==
    /\ run.kind = "afl_data" /\ run.phase = "games"
    /\ log' = <<>>
    /\ AflAbort

\* "Commit after each season"
AflCommit ==
    /\ run.kind = "afl_data" /\ run.phase = "games" /\ run.todo = <<>>
    /\ db' = Commit(sess)
    /\ sess' = Flush(sess)
    /\ run' = [run EXCEPT !.phase = "fetch", !.idx = @ + 1, !.cache = {},
                          !.processed = @ + 1]
    /\ mark' = db'
    /\ Quiet
    /\ UNCHANGED <<runs, site, first, call, writers>>

\* "Final commit", close, return True
AflFinish ==
    /\ run.kind = "afl_data" /\ run.phase = "fetch" /\ run.idx > NumSeasons
    /\ db' = Commit(sess)
    /\ sess' = NoSession
    /\ run' = [run EXCEPT !.phase = "done", !.ret = "true"]
    /\ mark' = db'
    /\ Quiet
    /\ RunEnds(db')
    /\ UNCHANGED <<runs, site, call, writers>>


(***************************************************************************)
(* AFLScraper.scrape_multiple_seasons and _scrape_season: a session per    *)
(* season, committed at the end of the season or rolled back.              *)
(***************************************************************************)
StartMulti ==
    /\ CanStart
    /\ \E save_to_db \in SaveChoices, years \in YearRanges :
         run' = [IdleRun EXCEPT !.kind = "multi", !.idx = years[1], !.phase = "fetch",
                                !.save_to_db = save_to_db,
                                !.start = years[1], !.last = years[2]]
    /\ sess' = NoSession
    /\ runs' = runs + 1
    /\ mark' = db
    /\ Quiet
    /\ UNCHANGED <<db, site, first, call, writers>>

\* A count of the games that only counts what is saved.
GamesSaved(games) == 0

\* games_found of _scrape_season
GamesFound(games) == Len(games)

\* an entry of the summary's season_details
SeasonDetail(year, games_found) == [year |-> year, games |-> games_found]

\* _scrape_season up to the session: the season page is fetched and parsed.
MultiFetch ==
    /\ run.kind = "multi" /\ run.phase = "fetch" /\ run.idx <= run.last
    /\ \E result \in PageResults(Seasons[run.idx]) :
         LET year == Seasons[run.idx]
             games == ParseSeasonPage(result.pairs, year)
         IN  IF ~result.success
             THEN /\ run' = [run EXCEPT !.idx = @ + 1, !.attempted = @ \cup {year},
                                        !.failed = @ \cup {year},
                                        !.pace = Slept(Fetched(@))]
                  /\ UNCHANGED sess
             ELSE IF run.save_to_db
             THEN /\ run' = [run EXCEPT !.phase = "games", !.todo = games,
                                        !.attempted = @ \cup {year},
                                        !.games_found = GamesFound(games),
                                        !.pace = Fetched(@)]
                  /\ sess' = OpenSession(db)
             ELSE /\ run' = [run EXCEPT !.idx = @ + 1, !.attempted = @ \cup {year},
                                        !.processed = @ + 1,
                                        !.pace = Slept(Fetched(@)),
                                        !.details = Append(@,
                                            SeasonDetail(year, GamesFound(games)))]
                  /\ UNCHANGED sess
    /\ mark' = db
    /\ Quiet
    /\ UNCHANGED <<db, runs, site, first, call, writers>>

\* One game of the season: _save_game_to_db, parse_game_stats, _save_player_stats_to_db.
MultiGame ==
    /\ run.kind = "multi" /\ run.phase = "games" /\ run.todo # <<>>
    /\ \E stats_result \in StatsFor({Head(run.todo).home_team}) :
         LET year == Seasons[run.idx]
             game == Head(run.todo)
             u == SaveGameToDb(sess, game, year)
         IN  /\ sess' = IF stats_result.success
                        THEN SavePlayerStatsToDb(u.s, stats_result.player_stats, u.id)
                        ELSE u.s
             /\ log' = <<WriteEvent("scrape_season", year, game.parsed_round, game.round,
                                    RowBefore(sess, u.id), u.s.games[u.id],
                                    game.home_score = 0 \/ game.away_score = 0)>>
             /\ run' = [run EXCEPT !.todo = Tail(@),
                                   !.pace = Slept(Fetched(@)),
                                   !.stats_failed = IF stats_result.success THEN @
                                                    ELSE @ \cup {year}]
    /\ fault' = NoFault
    /\ UNCHANGED <<db, runs, mark, site, first, call, writers>>

\* A storage call of the season, or its commit, raises: rollback, close, the
\* season is reported failed.
MultiStorageError ==
    /\ run.kind = "multi" /\ run.phase = "games"
    /\ db' = Rollback(db, sess)
    /\ sess' = NoSession
    /\ run' = [run EXCEPT !.phase = "fetch", !.idx = @ + 1, !.todo = <<>>,
                          !.failed = @ \cup {Seasons[run.idx]}, !.games_found = 0,
                          !.pace = Slept(@)]
    /\ log' = <<>>
    /\ fault' = Fault("rolled_back", Seasons[run.idx], db, sess)
    /\ UNCHANGED <<runs, mark, site, first, call, writers>>

MultiCommit ==
    /\ run.kind = "multi" /\ run.phase = "games" /\ run.todo = <<>>
    /\ db' = Commit(sess)
    /\ sess' = NoSession
    /\ run' = [run EXCEPT !.phase = "fetch", !.idx = @ + 1, !.processed = @ + 1,
                          !.games_found = 0, !.pace = Slept(@),
                          !.details = Append(@, SeasonDetail(Seasons[run.idx],
                                                             run.games_found))]
    /\ mark' = db'
    /\ Quiet
    /\ UNCHANGED <<runs, site, first, call, writers>>

MultiFinish ==
    /\ run.kind = "multi" /\ run.phase = "fetch" /\ run.idx > run.last
    /\ run' = [run EXCEPT !.phase = "done", !.ret = "summary"]
    /\ Quiet
    /\ RunEnds(db)
    /\ UNCHANGED <<db, sess, runs, mark, site, call, writers>>

(***************************************************************************)
(* The scheduler's jobs: the current season's page is parsed, its games    *)
(* deduplicated, those in the date window kept and saved, then one commit. *)
(***************************************************************************)
ResultsJob ==
    /\ CanStart
    /\ \E season \in SeasonSet, pairs \in Pages :
         LET games == DeduplicateGames(ParseResultsTable(pairs, season), <<>>)
             saved == SaveResultsToDb(OpenSession(db), games, <<>>)
         IN  /\ db' = Commit(saved.s)
             /\ log' = saved.events
    /\ fault' = NoFault
    /\ run' = [IdleRun EXCEPT !.kind = "results"]
    /\ runs' = runs + 1
    /\ mark' = db'
    /\ UNCHANGED <<sess, site, first, call, writers>>

UpcomingJob ==
    /\ CanStart
    /\ \E season \in SeasonSet, pairs \in Pages :
         LET games == DeduplicateGames(ParseFixtureTable(pairs, season), <<>>)
             saved == SaveUpcomingGamesToDb(OpenSession(db), games, <<>>)
         IN  /\ db' = Commit(saved.s)
             /\ log' = saved.events
    /\ fault' = NoFault
    /\ run' = [IdleRun EXCEPT !.kind = "upcoming"]
    /\ runs' = runs + 1
    /\ mark' = db'
    /\ UNCHANGED <<sess, site, first, call, writers>>

Next ==
    \/ StartAflData \/ AflFetch \/ AflGame \/ AflStorageError \/ AflCommit \/ AflFinish
    \/ StartMulti \/ MultiFetch \/ MultiGame \/ MultiStorageError \/ MultiCommit \/ MultiFinish
    \/ ResultsJob \/ UpcomingJob

Spec == Init /\ [][Next]_vars

(***************************************************************************)
(* The same pipeline run twice from empty storage over pages that do not   *)
(* change, with storage that does not fail.                                *)
(***************************************************************************)
InitTwice == Idle /\ site \in {Some(fixed) : fixed \in FixedSites}

TwiceAflData == site[1].pipeline = "afl_data" /\ StartAflData

TwiceMulti == site[1].pipeline = "multi" /\ StartMulti

NextTwice ==
    \/ TwiceAflData \/ AflFetch \/ AflGame \/ AflCommit \/ AflFinish
    \/ TwiceMulti \/ MultiFetch \/ MultiGame \/ MultiCommit \/ MultiFinish

SpecTwice == InitTwice /\ [][NextTwice]_vars

(***************************************************************************)
(* The same runs over a site where the page of at least one season is a    *)
(* "Round 3" header and the two rows Essendon "15.10.100", Richmond        *)
(* "12.9.81" with a stats link, and the box score lists Essendon's players.*)
(***************************************************************************)
Round3Page ==
    [ success |-> TRUE,
      pairs |-> << [ round |-> Some(3), home |-> "Essendon", away |-> "Richmond",
                     hcell |-> GbtCell(15, 10, 100), acell |-> GbtCell(12, 9, 81),
                     stats_link |-> TRUE ] >> ]

Round3Sites ==
    { fixed \in [ pipeline : {"afl_data", "multi"},
                  pages : [SeasonSet -> FetchResults \cup {Round3Page}],
                  stats : StatsResults({"Essendon"}),
                  save_to_db : {[k \in 1..MaxRuns |-> TRUE]} ] :
        \E season \in SeasonSet : fixed.pages[season] = Round3Page }

InitRound3 == Idle /\ site \in {Some(fixed) : fixed \in Round3Sites}

SpecRound3 == InitRound3 /\ [][NextTwice]_vars


(***************************************************************************)
(* The parsing functions called directly: the Round-0 adjustment on a raw  *)
(* round, and the two duplicate removals on the games of a page.           *)
(***************************************************************************)
CallNormalizeRound ==
    /\ call = NoCall
    /\ \E season \in ScrapedSeasons, raw_round \in 0..MaxRawRound :
         call' = [ fn |-> "normalize_round", arg |-> <<season, raw_round>>,
                   result |-> NormalizeRound(season, Some(raw_round)), rows |-> <<>> ]
    /\ UNCHANGED <<db, sess, run, runs, mark, log, fault, site, first, writers>>

CallUniqueGames ==
    /\ call = NoCall
    /\ \E season \in SeasonSet, pairs \in SeqsUpTo(RowPairs, MaxTableRows) :
         LET games == ParsePairs(pairs, season)
         IN  call' = [ fn |-> "unique_games", arg |-> games,
                       result |-> UniqueGames(games, <<>>), rows |-> <<>> ]
    /\ UNCHANGED <<db, sess, run, runs, mark, log, fault, site, first, writers>>

CallDeduplicateGames ==
    /\ call = NoCall
    /\ \E season \in SeasonSet, pairs \in SeqsUpTo(RowPairs, MaxTableRows) :
         LET games == ParseResultsTable(pairs, season)
             unique_games == DeduplicateGames(games, <<>>)
             saved == SaveResultsToDb(OpenSession(EmptyTables), unique_games, <<>>)
         IN  call' = [ fn |-> "deduplicate_games", arg |-> games,
                       result |-> unique_games, rows |-> Commit(saved.s).games ]
    /\ UNCHANGED <<db, sess, run, runs, mark, log, fault, site, first, writers>>

\* The score cells of a row: "", "-", "80" and "12.8.80".
ScoreCells == {EmptyCell, DashCell, BareCell(80), GbtCell(12, 8, 80)}

\* The score of the home or the away row as _parse_game_rows takes it.
CallRowsScore ==
    /\ call = NoCall
    /\ \E side \in {"home", "away"}, cell \in ScoreCells :
         call' = [ fn |-> "rows_score", arg |-> <<side, cell>>,
                   result |-> Some(RowsScore(cell)), rows |-> <<>> ]
    /\ UNCHANGED <<db, sess, run, runs, mark, log, fault, site, first, writers>>

\* The score of the home or the away row as _extract_result_details takes it.
CallResultScore ==
    /\ call = NoCall
    /\ \E side \in {"home", "away"}, cell \in ScoreCells :
         call' = [ fn |-> "result_score", arg |-> <<side, cell>>,
                   result |-> ResultScore(cell), rows |-> <<>> ]
    /\ UNCHANGED <<db, sess, run, runs, mark, log, fault, site, first, writers>>

CallParseStat ==
    /\ call = NoCall
    /\ \E cell \in StatTexts :
         call' = [ fn |-> "parse_stat", arg |-> cell,
                   result |-> Some(ParseStat(cell)), rows |-> <<>> ]
    /\ UNCHANGED <<db, sess, run, runs, mark, log, fault, site, first, writers>>

CallExtractPlayerStats ==
    /\ call = NoCall
    /\ \E rows \in SeqsUpTo(BoxRows, MaxBoxRows) :
         call' = [ fn |-> "extract_player_stats", arg |-> rows,
                   result |-> ExtractPlayerStats(rows, <<>>), rows |-> <<>> ]
    /\ UNCHANGED <<db, sess, run, runs, mark, log, fault, site, first, writers>>

(***************************************************************************)
(* The rows of a table of a season page: a row with a team link, a row     *)
(* whose text holds "Round N", or any other row.  The team rows of a table *)
(* name different teams.                                                   *)
(***************************************************************************)
TeamRow == [kind |-> "team", n |-> 0]
OtherRow == [kind |-> "other", n |-> 0]
RoundRow(n) == [kind |-> "round", n |-> n]
PageRows == {TeamRow, OtherRow} \cup {RoundRow(n) : n \in 1..MaxHeader}
PageTables == SeqsUpTo(PageRows, MaxRows)

\* len(team_links) >= 2
HasTeamLinks(rows) == Cardinality({i \in DOMAIN rows : rows[i].kind = "team"}) >= 2

\* parse_season_page: for i in range(0, len(rows), 2), and the two team
\* links that _parse_game_rows requires.  A table whose first row holds a
\* round header is left at the `continue`.
RECURSIVE StrideFrom(_, _)
StrideFrom(rows, i) ==
    IF i + 1 > Len(rows) THEN <<>>
    ELSE (IF rows[i].kind = "team" /\ rows[i + 1].kind = "team" THEN <<<<i, i + 1>>>> ELSE <<>>)
         \o StrideFrom(rows, i + 2)

StridePairs(rows) ==
    IF rows = <<>> THEN <<>>
    ELSE IF rows[1].kind = "round" THEN <<>>
    ELSE IF HasTeamLinks(rows) THEN StrideFrom(rows, 1)
    ELSE <<>>

\* _parse_results_table and _parse_fixture_table: the while loop over i
RECURSIVE ScanFrom(_, _)
ScanFrom(rows, i) ==
    IF i > Len(rows) THEN <<>>
    ELSE IF rows[i].kind # "team" THEN ScanFrom(rows, i + 1)
    ELSE IF i + 1 <= Len(rows) /\ rows[i + 1].kind = "team"
    THEN <<<<i, i + 1>>>> \o ScanFrom(rows, i + 2)
    ELSE ScanFrom(rows, i + 1)

ScanPairs(rows) == IF HasTeamLinks(rows) THEN ScanFrom(rows, 1) ELSE <<>>

\* The round-hint each parser passes on with the pairs of one table, from
\* the current_round it enters the table with, and the current_round it
\* leaves the table with.
HintedGames(pairs, current_round) ==
    [k \in DOMAIN pairs |-> [home |-> pairs[k][1], away |-> pairs[k][2],
                             round |-> current_round]]

\* parse_season_page looks for the header in rows[0] only.
StrideTable(rows, current_round) ==
    IF rows # <<>> /\ rows[1].kind = "round"
    THEN [games |-> <<>>, current_round |-> Some(rows[1].n)]
    ELSE [games |-> HintedGames(StridePairs(rows), current_round),
          current_round |-> current_round]

\* _get_season_results and _get_season_fixture run the loop over all the
\* rows for headers before they parse the table.
RECURSIVE LastHeader(_, _)
LastHeader(rows, current_round) ==
    IF rows = <<>> THEN current_round
    ELSE LastHeader(Tail(rows), IF Head(rows).kind = "round" THEN Some(Head(rows).n)
                                ELSE current_round)

ScanTable(rows, current_round) ==
    LET round == LastHeader(rows, current_round)
    IN  [games |-> HintedGames(ScanPairs(rows), round), current_round |-> round]

CallRoundHints ==
    /\ call = NoCall
    /\ \E rows \in PageTables, current_round \in {None} \cup {Some(n) : n \in 1..MaxHeader} :
         call' = [ fn |-> "round_hints", arg |-> <<rows, current_round>>,
                   result |-> StrideTable(rows, current_round),
                   rows |-> ScanTable(rows, current_round) ]
    /\ UNCHANGED <<db, sess, run, runs, mark, log, fault, site, first, writers>>

\* The sources of a game's raw round: the round in the path of the stats
\* link, the round_num the caller passes and the "Round N" of the rows'
\* text, each absent or a number.
RoundSources == {None} \cup {Some(n) : n \in 0..MaxHeader}

\* _parse_game_rows: `if not round_num` before the link and before the text
GameRowsRound(link_round, round_num, text_round) ==
    LET from_link == IF ~Truthy(round_num) /\ link_round # None THEN link_round
                     ELSE round_num
    IN  IF ~Truthy(from_link) /\ text_round # None THEN text_round ELSE from_link

\* _extract_result_details never reads the stats link
ResultDetailsRound(link_round, round_num, text_round) ==
    IF ~Truthy(round_num) /\ text_round # None THEN text_round ELSE round_num

CallRawRound ==
    /\ call = NoCall
    /\ \E link_round \in RoundSources, round_num \in RoundSources, text_round \in RoundSources :
         call' = [ fn |-> "raw_round", arg |-> <<link_round, round_num, text_round>>,
                   result |-> GameRowsRound(link_round, round_num, text_round),
                   rows |-> ResultDetailsRound(link_round, round_num, text_round) ]
    /\ UNCHANGED <<db, sess, run, runs, mark, log, fault, site, first, writers>>

\* The date text of a pair of rows: no date pattern, a pattern that
\* strptime rejects, or a date.
DateTexts == {[form |-> "missing", day |-> 0], [form |-> "unparseable", day |-> 0]}
             \cup {[form |-> "date", day |-> d] : d \in 1..MaxDay}

\* game_date of _extract_result_details and of _extract_game_details
GameDate(text) == IF text.form = "date" THEN Some(text.day) ELSE None

\* list.sort by the key, stable: the game goes after the sorted games whose
\* date is not later.
RECURSIVE InsertByDate(_, _)
InsertByDate(sorted, game) ==
    IF sorted = <<>> THEN <<game>>
    ELSE IF game.game_date[1] < Head(sorted).game_date[1] THEN <<game>> \o sorted
    ELSE <<Head(sorted)>> \o InsertByDate(Tail(sorted), game)

RECURSIVE SortedByDate(_)
SortedByDate(games) ==
    IF games = <<>> THEN <<>>
    ELSE InsertByDate(SortedByDate(SubSeq(games, 1, Len(games) - 1)), games[Len(games)])

\* The end of _get_season_results and of _get_season_fixture: the key of a
\* game is x.get('game_date', datetime.min), which is None for a game whose
\* game_date is None; with two games or more the sort compares every key
\* and raises TypeError at a None, and the handler returns the failure.
SeasonGamesByDate(unique_games) ==
    IF Len(unique_games) >= 2 /\ \E i \in DOMAIN unique_games : unique_games[i].game_date = None
    THEN [success |-> FALSE, games |-> <<>>]
    ELSE [success |-> TRUE, games |-> SortedByDate(unique_games)]

CallSeasonGamesByDate ==
    /\ call = NoCall
    /\ \E texts \in SeqsUpTo(DateTexts, MaxDated) :
         LET unique_games == [k \in DOMAIN texts |-> [game |-> k, game_date |-> GameDate(texts[k])]]
         IN  call' = [ fn |-> "season_games_by_date", arg |-> texts,
                       result |-> SeasonGamesByDate(unique_games), rows |-> <<>> ]
    /\ UNCHANGED <<db, sess, run, runs, mark, log, fault, site, first, writers>>

\* The venue and the date of a Game, stored or extracted from the rows:
\* each is absent or a value.
GameDetails == [venue : {None, Some("MCG"), Some("SCG")},
                game_date : {None} \cup {Some(d) : d \in 1..MaxDay}]

\* "Update existing game" of scrape_afl_data_to_database
UpdateDetailsAfl(existing_game, game_data) ==
    [existing_game EXCEPT !.venue = game_data.venue, !.game_date = game_data.game_date]

\* save_results_to_db and save_upcoming_games_to_db: if game_data.get(...)
UpdateDetailsIfGiven(existing_game, game_data) ==
    [existing_game EXCEPT
        !.venue = IF game_data.venue # None THEN game_data.venue ELSE @,
        !.game_date = IF game_data.game_date # None THEN game_data.game_date ELSE @]

CallUpdateDetails ==
    /\ call = NoCall
    /\ \E path \in {"afl_data", "save_results_to_db", "save_upcoming_games_to_db"},
          existing_game \in GameDetails, game_data \in GameDetails :
         call' = [ fn |-> "update_details", arg |-> <<path, existing_game, game_data>>,
                   result |-> IF path = "afl_data"
                              THEN UpdateDetailsAfl(existing_game, game_data)
                              ELSE UpdateDetailsIfGiven(existing_game, game_data),
                   rows |-> <<>> ]
    /\ UNCHANGED <<db, sess, run, runs, mark, log, fault, site, first, writers>>

CallPairRows ==
    /\ call = NoCall
    /\ \E rows \in PageTables :
         call' = [ fn |-> "pair_rows", arg |-> rows,
                   result |-> StridePairs(rows), rows |-> ScanPairs(rows) ]
    /\ UNCHANGED <<db, sess, run, runs, mark, log, fault, site, first, writers>>

\* The kicks a box score gives a player on two parses of the same page.
ReparsedKicks == {12, 15}

\* The box score of a stored game saved twice, each time in a session of its
\* own, by the loop of scrape_afl_data_to_database or by
\* _save_player_stats_to_db.
CallSaveStatsTwice ==
    /\ call = NoCall
    /\ \E routine \in {"afl_data", "save_player_stats_to_db"},
          name \in PlayerNames, before \in ReparsedKicks, after \in ReparsedKicks :
         LET game == GameRow(FirstSeason, Some(1), "Essendon", "Richmond",
                             Some(100), Some(81), TRUE)
             stored == [EmptyTables EXCEPT !.games = <<game>>]
             Save(tables, kicks) ==
                 LET player_stats == <<[team |-> "Essendon",
                                        players |-> <<[name |-> name, kicks |-> kicks]>>]>>
                 IN  IF routine = "afl_data"
                     THEN Commit(SaveTablesAfl(OpenSession(tables), 1, player_stats,
                                               {"Essendon", "Richmond"}).s)
                     ELSE Commit(SavePlayerStatsToDb(OpenSession(tables), player_stats, 1))
             once == Save(stored, before)
         IN  call' = [ fn |-> "save_stats_twice", arg |-> <<routine, before, after>>,
                       result |-> once.stats, rows |-> Save(once, after).stats ]
    /\ UNCHANGED <<db, sess, run, runs, mark, log, fault, site, first, writers>>

NextCall ==
    \/ CallNormalizeRound \/ CallUniqueGames \/ CallDeduplicateGames
    \/ CallRowsScore \/ CallResultScore
    \/ CallParseStat \/ CallExtractPlayerStats
    \/ CallSaveStatsTwice
    \/ CallPairRows \/ CallRoundHints \/ CallRawRound
    \/ CallSeasonGamesByDate \/ CallUpdateDetails

SpecCall == Init /\ [][NextCall]_vars

(***************************************************************************)
(* Two executions of _scrape_upcoming_games at once: the job that the      *)
(* BackgroundScheduler runs on its own thread, and run_job_now, which      *)
(* calls the same function on the caller's thread.  No lock is taken and   *)
(* each execution has its own session; a query sees the rows committed so  *)
(* far, and the rows a session added reach the table at its commit.        *)
(***************************************************************************)
WriterStart(w) ==
    /\ writers[w].phase \in {"idle", "done"} /\ writers[w].calls < MaxRuns
    /\ \E season \in SeasonSet, pairs \in Pages :
         writers' = [writers EXCEPT ![w] =
             [IdleWriter EXCEPT !.phase = "saving", !.calls = writers[w].calls + 1,
                                !.todo = DeduplicateGames(ParseFixtureTable(pairs, season), <<>>)]]
    /\ UNCHANGED <<db, sess, run, runs, mark, log, fault, site, first, call>>

\* One turn of the loop of save_upcoming_games_to_db: the query, then the
\* update of the row found or the add of a new Game to the session.
WriterSave(w) ==
    /\ writers[w].phase = "saving" /\ writers[w].todo # <<>>
    /\ LET game_data == Head(writers[w].todo)
           existing_game == FindGame(OpenSession(db), game_data.season, game_data.round,
                                     game_data.home_team, game_data.away_team)
       IN  writers' = [writers EXCEPT
               ![w].todo = Tail(@),
               ![w].updated = IF existing_game # 0 THEN @ \cup {existing_game} ELSE @,
               ![w].added = IF existing_game # 0 THEN @
                            ELSE Append(@, GameRow(game_data.season, game_data.round,
                                                   game_data.home_team, game_data.away_team,
                                                   None, None, FALSE))]
    /\ UNCHANGED <<db, sess, run, runs, mark, log, fault, site, first, call>>

\* db.commit() after the loop
WriterCommit(w) ==
    /\ writers[w].phase = "saving" /\ writers[w].todo = <<>>
    /\ db' = [db EXCEPT !.games =
                 [i \in DOMAIN @ |-> IF i \in writers[w].updated
                                     THEN [@[i] EXCEPT !.is_finished = FALSE] ELSE @[i]]
                 \o writers[w].added]
    /\ writers' = [writers EXCEPT ![w].phase = "done"]
    /\ UNCHANGED <<sess, run, runs, mark, log, fault, site, first, call>>

NextWriters == \E w \in Writers : WriterStart(w) \/ WriterSave(w) \/ WriterCommit(w)

SpecWriters == Init /\ [][NextWriters]_vars

(***************************************************************************)
(* Properties.                                                             *)
(***************************************************************************)
GameKey(g) == <<g.season, g.round, g.home, g.away>>

\* C1: once a stored Game is finished, no later step of any scraper makes it
\* unfinished again.
FinishedNeverReverts ==
    [][\A i \in DOMAIN db.games : db.games[i].is_finished => db'.games[i].is_finished]_vars

\* C2: an update of an already finished Game by a historical re-scrape in
\* which a score could not be parsed leaves its scores and its finished flag
\* as they were.
MissingScoreKeepsFinishedGame ==
    \A i \in DOMAIN log :
        (/\ log[i].writer \in {"afl_data", "scrape_season"}
         /\ log[i].was # None /\ log[i].was[1].is_finished /\ log[i].missing)
        => /\ log[i].now.home_score = log[i].was[1].home_score
           /\ log[i].now.away_score = log[i].was[1].away_score
           /\ log[i].now.is_finished = log[i].was[1].is_finished

UniqueKeys(games) ==
    \A i, j \in DOMAIN games : GameKey(games[i]) = GameKey(games[j]) => i = j

\* C3: storage, and the session of a run in progress, hold at most one Game
\* row per (season, round, home team, away team).
UniqueGameKeys == UniqueKeys(db.games) /\ UniqueKeys(Flush(sess).games)

\* C3 witness: a scrape found a stored Game by its key and updated it, with
\* two Games in storage.
GameFoundByKey ==
    /\ log # <<>> /\ log[1].was # None
    /\ Len(db.games) >= 2

\* C4: over unchanged pages, the tables after the second run of the pipeline
\* are the tables after its first run.
SecondRunChangesNothing ==
    (/\ first # None /\ runs = MaxRuns /\ run.phase = "done"
     /\ \A k \in 1..MaxRuns : site[1].save_to_db[k])
    => db = first[1]

\* C5: storage holds at most one PlayerGameStats row per (game, player).
UniqueStatsPerGamePlayer ==
    \A i, j \in DOMAIN db.stats :
        (db.stats[i].game = db.stats[j].game /\ db.stats[i].player = db.stats[j].player)
        => i = j

\* C6: after a season's persistence failed, storage is what it was when the
\* season's writes began: none of the season's writes, all of the earlier rows.
FailedSeasonLeavesNoWrites == fault.kind # "none" => db = mark

\* C6 witness: the second season of a run was rolled back with rows written
\* in its session, after the first season's Games were committed.
SecondSeasonRolledBack ==
    /\ fault.kind = "rolled_back" /\ fault.discarded > 0
    /\ fault.season = Seasons[2]
    /\ run.processed >= 1
    /\ \E i \in DOMAIN db.games : db.games[i].season = Seasons[1]

\* C7: a multi-season run that has ended has attempted every season and
\* returned its summary.
EndedRunAttemptedEverySeason ==
    (run.kind \in {"afl_data", "multi"} /\ run.phase = "done")
    => (/\ run.attempted = {Seasons[i] : i \in run.start..run.last}
        /\ run.ret \in {"true", "summary"})

\* C8: the round every writer uses in the key of a Game is the normalised
\* round of the round it parsed.
KeyRoundIsNormalized ==
    \A i \in DOMAIN log :
        log[i].key_round = NormalizeRound(log[i].season, log[i].parsed_round)

\* C9: the round adjustment returns the raw round less one in a season with a
\* Round 0 and the raw round itself in any other season, and no other raw
\* round of the season is given the same result.
NormalizerSubtractsOne ==
    call.fn = "normalize_round"
    => LET season == call.arg[1]
           raw_round == call.arg[2]
       IN  /\ call.result = IF season \in Round0Seasons
                             THEN Some(raw_round - 1) ELSE Some(raw_round)
           /\ \A other \in 0..MaxRawRound :
                 NormalizeRound(season, Some(other)) = call.result => other = raw_round

NaturalKey(game) == <<game.season, game.round, game.home_team, game.away_team>>

\* C10: the duplicate removal returns exactly one record for each natural key
\* among the games with a round that it is given, and saving what it returns
\* stores exactly one Game row for each of those keys.
DedupKeepsOnePerKey ==
    call.fn \in {"unique_games", "deduplicate_games"}
    => \A i \in {k \in DOMAIN call.arg : call.arg[k].round # None} :
         /\ Cardinality({j \in DOMAIN call.result :
                            NaturalKey(call.result[j]) = NaturalKey(call.arg[i])}) = 1
         /\ call.fn = "deduplicate_games"
            => Cardinality({j \in DOMAIN call.rows :
                               GameKey(call.rows[j]) = NaturalKey(call.arg[i])}) = 1

\* C11: no game without a round is in the games a season page yields after
\* duplicate removal, and no Game without a round is stored.
NoPartialKey ==
    /\ \A i \in DOMAIN run.todo : run.todo[i].round # None
    /\ \A i \in DOMAIN Flush(sess).games : Flush(sess).games[i].round # None
    /\ \A i \in DOMAIN db.games : db.games[i].round # None

\* C12: a Game written from a scrape in which the score of either side could
\* not be parsed is not finished.
MissingScoreMeansUnfinished ==
    \A i \in DOMAIN log : log[i].missing => ~log[i].now.is_finished

\* C13: each score parser gives the total of a goals.behinds.total cell, the
\* value of a bare integer cell and null for an empty or "-" cell, for the home
\* and the away row alike.
ScoreOfCell ==
    call.fn \in {"rows_score", "result_score"}
    => call.result = IF call.arg[2].form \in {"gbt", "int"}
                     THEN Some(call.arg[2].total) ELSE None

\* The Games of a season between two teams, and the box-score rows of a Game.
GamesOf(tables, season, home, away) ==
    {i \in DOMAIN tables.games : /\ tables.games[i].season = season
                                  /\ tables.games[i].home = home
                                  /\ tables.games[i].away = away}

StatsOf(tables, game_id) == {i \in DOMAIN tables.stats : tables.stats[i].game = game_id}

\* C14: after a run over the "Round 3" page of a season, storage holds exactly
\* one Game of that season for Essendon v Richmond: round 3 (2 in a season
\* with a Round 0), scores 100 and 81, finished, with one PlayerGameStats row
\* per player the box score lists.
Round3GameStored ==
    first # None
    => \A season \in SeasonSet :
         site[1].pages[season] = Round3Page
         => LET ids == GamesOf(first[1], season, "Essendon", "Richmond")
                listed == IF site[1].stats.success
                          THEN Len(site[1].stats.player_stats[1].players) ELSE 0
            IN  /\ Cardinality(ids) = 1
                /\ \A id \in ids :
                      /\ first[1].games[id].round =
                            Some(IF season \in Round0Seasons THEN 2 ELSE 3)
                      /\ first[1].games[id].home_score = Some(100)
                      /\ first[1].games[id].away_score = Some(81)
                      /\ first[1].games[id].is_finished
                      /\ Cardinality(StatsOf(first[1], id)) = listed

\* The season_details a run over the fixed pages is to report: the seasons
\* whose page was fetched, in order, each with the games found on its page.
FetchedSeasons == SelectSeq(Seasons, LAMBDA year : site[1].pages[year].success)

ExpectedDetails ==
    [ i \in DOMAIN FetchedSeasons |->
        [ year |-> FetchedSeasons[i],
          games |-> Len(ParseSeasonPage(site[1].pages[FetchedSeasons[i]].pairs,
                                        FetchedSeasons[i])) ] ]

\* C15: while a run with save_to_db = False is in progress and when it has
\* ended, the committed tables are what they were when it started and the run
\* has no session; its summary reports every season whose page was fetched
\* with the number of games found on the page.
DryRunWritesNothing ==
    (run.kind = "multi" /\ ~run.save_to_db)
    => /\ db = IF first = None \/ runs = 1 THEN EmptyTables ELSE first[1]
       /\ sess = NoSession
       /\ run.phase = "done"
          => /\ run.ret = "summary"
             /\ run.details = ExpectedDetails

\* C15 witness: a dry run over storage that holds a Game has returned a
\* summary that reports a season with a game found.
DryRunReported ==
    /\ run.kind = "multi" /\ ~run.save_to_db /\ run.phase = "done"
    /\ run.ret = "summary"
    /\ \E i \in DOMAIN run.details : run.details[i].games >= 1
    /\ runs = MaxRuns /\ Len(db.games) >= 1

\* C16: a run invoked with a start year after its end year ends with a
\* configuration error and has fetched no page.
InvertedRangeRejected ==
    (run.kind = "multi" /\ run.start > run.last /\ run.phase = "done")
    => (run.ret = "config_error" /\ run.attempted = {})

\* C17: when a run of scrape_multiple_seasons has ended, every season in
\* which the fetch of a box-score page failed has an entry in the summary's
\* error list.
FailedStatsPageRecorded ==
    (run.kind = "multi" /\ run.phase = "done") => run.stats_failed \subseteq run.failed

UniqueNames(rows) == \A i, j \in DOMAIN rows : rows[i] = rows[j] => i = j

\* C18: in every step of sequential runs the stored teams and the stored
\* players have one row per name after the step, and every team name and
\* player name stored before the step is stored after it.
TeamAndPlayerNamesOnlyGrow ==
    [][ /\ UniqueNames(db'.teams) /\ UniqueNames(db'.players)
        /\ Range(db.teams) \subseteq Range(db'.teams)
        /\ Range(db.players) \subseteq Range(db'.players) ]_vars

\* A player sighted again by a later box score, and teams, in storage.
PlayerSightedAgain ==
    /\ Len(db.players) = 1 /\ Len(db.stats) >= 2
    /\ db.teams # <<>>
    /\ runs = MaxRuns

IsNumeric(cell) ==
    LET t == Strip(cell) IN t # <<>> /\ \A i \in DOMAIN t : t[i] \in Digits

ExpectedStat(cell) == IF IsNumeric(cell) THEN DecimalValue(Strip(cell)) ELSE 0

HasRecordCells(row) == row.ncells > LastStatCell /\ row.link

NumericRows(rows) == [i \in DOMAIN rows |-> [rows[i] EXCEPT !.kicks = <<"1">>]]

\* C19: _parse_stat gives 0 for an empty or non-numeric cell and the integer
\* for a numeric cell, and the rows of a box-score table yield the player
\* records they would yield if every stat cell held a number.
StatCellCoercion ==
    /\ call.fn = "parse_stat"
        => call.result = Some(ExpectedStat(call.arg))
    /\ call.fn = "extract_player_stats"
        => LET expected == ExtractPlayerStats(NumericRows(call.arg), <<>>)
               complete == SelectSeq(call.arg, HasRecordCells)
           IN  /\ call.result.raised = expected.raised
               /\ Len(call.result.players) = Len(expected.players)
               /\ \A i \in DOMAIN expected.players :
                     /\ call.result.players[i].name = expected.players[i].name
                     /\ call.result.players[i].kicks = ExpectedStat(complete[i].kicks)

\* A row whose kicks cell is empty, and one whose cell is no number, each
\* yielding a player record with 0 kicks.
EmptyCellRowYieldsRecord ==
    /\ call.fn = "extract_player_stats"
    /\ Len(call.arg) = 2
    /\ call.arg[1].kicks = <<>> /\ call.arg[2].kicks = <<"1", "x">>
    /\ Len(call.result.players) = 2
    /\ call.result.players[1].kicks = 0 /\ call.result.players[2].kicks = 0

\* C20: while the scheduler's job and run_job_now execute the same save
\* routine at once, storage never holds two Games with the same natural
\* key, two Teams with the same name or two Players with the same name.
ConcurrentWritersKeepRowsUnique ==
    (\E w \in Writers : writers[w].phase # "idle")
    => /\ UniqueKeys(db.games)
       /\ UniqueNames(db.teams) /\ UniqueNames(db.players)

\* C21: when the box score of a game is saved again, the one stored row of
\* each (game, player) holds the newly parsed statistics and no second row
\* is stored for the pair.
ReparsedStatsUpdatedInPlace ==
    call.fn = "save_stats_twice"
    => /\ Len(call.result) = 1
       /\ Len(call.rows) = 1
       /\ call.rows[1].kicks = call.arg[3]

\* C22: no run of the historical pipelines issues a page request after
\* another page request without a delay between the two.
DelayBetweenFetches == run.pace # "rushed"

\* The team rows that precede row i without a gap.
RECURSIVE TeamRowsBefore(_, _)
TeamRowsBefore(rows, i) ==
    IF i = 1 \/ rows[i - 1].kind # "team" THEN 0 ELSE 1 + TeamRowsBefore(rows, i - 1)

\* The pairs of the scan that advances by two after a pair and by one
\* otherwise: adjacent team rows, the first at an even distance from the
\* start of its run of team rows.
AdjacentPairs(rows) ==
    { <<i, i + 1>> : i \in { j \in 1..(Len(rows) - 1) :
                               /\ rows[j].kind = "team" /\ rows[j + 1].kind = "team"
                               /\ TeamRowsBefore(rows, j) % 2 = 0 } }

\* C23: the row pairs that parse_season_page parses into games, and those
\* of _parse_results_table and _parse_fixture_table, are the adjacent pairs
\* of team rows that the advance-by-one scan finds.
PairsAreThoseOfTheScan ==
    (call.fn = "pair_rows" /\ HasTeamLinks(call.arg))
    => /\ Range(call.rows) = AdjacentPairs(call.arg)
       /\ Range(call.result) = AdjacentPairs(call.arg)

\* The header nearest before row i of the table, else the round carried
\* into the table.
RECURSIVE NearestHeader(_, _, _)
NearestHeader(rows, i, carried) ==
    IF i = 0 THEN carried
    ELSE IF rows[i].kind = "round" THEN Some(rows[i].n)
    ELSE NearestHeader(rows, i - 1, carried)

CarriesNearestHeader(parsed, rows, carried) ==
    /\ \A k \in DOMAIN parsed.games :
          parsed.games[k].round = NearestHeader(rows, parsed.games[k].home, carried)
    /\ parsed.current_round = NearestHeader(rows, Len(rows), carried)

\* C24: every game a season-page parser takes from a table carries the number
\* of the nearest "Round N" header before it in page order, and the parser
\* leaves the table with the last header seen.
RoundHintIsNearestHeader ==
    call.fn = "round_hints"
    => /\ CarriesNearestHeader(call.result, call.arg[1], call.arg[2])
       /\ CarriesNearestHeader(call.rows, call.arg[1], call.arg[2])

PreferredRound(link_round, hint, text_round) ==
    IF link_round # None THEN link_round
    ELSE IF hint # None THEN hint
    ELSE text_round

\* C25: the raw round of a parsed game is the round of the stats-link path
\* when there is one, else the carried round-hint, else the round of the
\* local "Round N" text, in _parse_game_rows and in _extract_result_details.
RawRoundPreference ==
    call.fn = "raw_round"
    => /\ call.result = PreferredRound(call.arg[1], call.arg[2], call.arg[3])
       /\ call.rows = PreferredRound(call.arg[1], call.arg[2], call.arg[3])

\* C26: the season parse succeeds for every mix of dated and undated games
\* and returns each game, a game with a missing or unparseable date text
\* with game_date null.
UndatedGamesAreReturned ==
    call.fn = "season_games_by_date"
    => /\ call.result.success
       /\ Len(call.result.games) = Len(call.arg)
       /\ \A k \in DOMAIN call.arg :
             \E i \in DOMAIN call.result.games :
                 /\ call.result.games[i].game = k
                 /\ call.arg[k].form # "date" => call.result.games[i].game_date = None

\* C27: a game of round 0 given to _deduplicate_games is among the games it
\* returns and is stored with round 0, and a game of round 0 that
\* parse_season_page returns has a key that holds its round.
RoundZeroIsKept ==
    /\ call.fn = "deduplicate_games"
        => \A i \in DOMAIN call.arg :
               call.arg[i].round = Some(0)
               => /\ \E j \in DOMAIN call.result :
                        NaturalKey(call.result[j]) = NaturalKey(call.arg[i])
                  /\ \E j \in DOMAIN call.rows :
                        GameKey(call.rows[j]) = NaturalKey(call.arg[i])
    /\ call.fn = "unique_games"
        => \A i \in DOMAIN call.result :
               call.result[i].round = Some(0)
               => call.result[i].game_id = <<call.result[i].season, "r", 0,
                                             call.result[i].home_team,
                                             call.result[i].away_team>>

\* C28: the step of scrape_afl_data_to_database that saves a game and its
\* box score never ends in the abort of the run, whatever team names head
\* the tables of the box score.
BoxScoreTeamNeverAborts ==
    ~(run.kind = "afl_data" /\ fault.kind = "aborted" /\ log # <<>>)

\* C29: _extract_player_stats returns a player record for every row that
\* has the cells of the fixed-position columns and a player link, whatever
\* other rows the page holds.
ShortRowIsSkippedAlone ==
    call.fn = "extract_player_stats"
    => LET complete == SelectSeq(call.arg, HasRecordCells)
       IN  /\ Len(call.result.players) = Len(complete)
           /\ \A i \in DOMAIN complete : call.result.players[i].name = complete[i].name

\* C30: on every update path, the update of a stored Game from rows in
\* which the venue could not be extracted leaves the stored venue as it
\* was, and likewise for the date.
MissingDetailsKeepStored ==
    call.fn = "update_details"
    => /\ call.arg[3].venue = None => call.result.venue = call.arg[2].venue
       /\ call.arg[3].game_date = None => call.result.game_date = call.arg[2].game_date

=============================================================================
